---- MODULE Spec2Model ----
(***************************************************************************)
(* The preheat policy manager (src/pkg/p2p/preheat/policy/manager.go):     *)
(* eight operations delegating to the policy DAO, and the normalization    *)
(* pass parsePolicy / parseFilters / parseTrigger run on every read.       *)
(*                                                                         *)
(* Text whose characters the code inspects (filter types, severity values) *)
(* is a sequence of one-character strings.  A serialized field is the      *)
(* empty text, a text that is not JSON, or the JSON value the text spells. *)
(***************************************************************************)
EXTENDS Integers, Sequences, FiniteSets, TLC

\* ---------------------------------------------------------------- bounds
MaxId == 2
MaxFilters == 2

\* ------------------------------------------------------------- constants
\* strconv.ParseInt(s, 10, 32): the largest value of a signed 32-bit integer
MaxInt32 == 2147483647
MinInt32 == (-MaxInt32) - 1

\* ------------------------------------------------------------- Go values
\* a nil pointer, a nil slice, a nil map, a nil interface value
Nil == [k |-> "nil"]

GString(s) == [k |-> "string", s |-> s]
GFloat(m, e) == [k |-> "float64", m |-> m, e |-> e]
GBool(b) == [k |-> "bool", b |-> b]
GMap == [k |-> "map"]
GArray == [k |-> "array"]
\* an int; sat = -1 / 1 stands for the smallest / largest 64-bit int
GInt(v) == [k |-> "int", v |-> v, sat |-> 0]
GIntMin == [k |-> "int", v |-> 0, sat |-> -1]
GIntMax == [k |-> "int", v |-> 0, sat |-> 1]

GSlice(elems) == [k |-> "slice", elems |-> elems]
Filter(t, v) == [k |-> "filter", Type |-> t, Value |-> v]
Trigger(t) == [k |-> "trigger", Type |-> t]

\* --------------------------------------------------------------- errors
NoErr == [type |-> "nil", msg |-> "", cause |-> "", code |-> ""]
SyntaxError == [type |-> "*json.SyntaxError", msg |-> "", cause |-> "", code |-> ""]
UnmarshalTypeError ==
    [type |-> "*json.UnmarshalTypeError", msg |-> "", cause |-> "", code |-> ""]
NumError == [type |-> "*strconv.NumError", msg |-> "", cause |-> "", code |-> ""]
ErrorsNew(msg) == [type |-> "*errors.Error", msg |-> msg, cause |-> "", code |-> ""]
ErrorsWrapf(err, msg) ==
    [type |-> "*errors.Error", msg |-> msg, cause |-> err.type, code |-> err.code]

\* ------------------------------------------------------------ JSON texts
JNull == [k |-> "null"]
JAbsent == [k |-> "absent"]
JBool(b) == [k |-> "bool", b |-> b]
JNum(m, e) == [k |-> "num", m |-> m, e |-> e]
JStr(s) == [k |-> "str", s |-> s]
JArr(items) == [k |-> "arr", items |-> items]
JObj(t, v) == [k |-> "obj", type |-> t, value |-> v]

EmptyText == [t |-> "empty"]
InvalidText == [t |-> "invalid"]
JSONText(doc) == [t |-> "json", doc |-> doc]

FilterTypeVulnerability ==
    <<"v", "u", "l", "n", "e", "r", "a", "b", "i", "l", "i", "t", "y">>
FilterTypeRepository == <<"r", "e", "p", "o", "s", "i", "t", "o", "r", "y">>

\* ------------------------------------------------------ strconv.ParseInt
Digits == {"0", "1", "2", "3", "4", "5", "6", "7", "8", "9"}

DigitVal(c) ==
    CASE c = "0" -> 0 [] c = "1" -> 1 [] c = "2" -> 2 [] c = "3" -> 3
      [] c = "4" -> 4 [] c = "5" -> 5 [] c = "6" -> 6 [] c = "7" -> 7
      [] c = "8" -> 8 [] c = "9" -> 9

\* The digits of s from position i on, accumulated as the negated magnitude
\* nacc, so that the magnitude 2^31 (the cutoff of a 32-bit parse) is still
\* an integer of the model.  A magnitude above 2^31 is an error whatever
\* follows it (out of range, or a syntax error further on).
RECURSIVE ParseDigits(_, _, _)
ParseDigits(s, i, nacc) ==
    IF i > Len(s) THEN [ok |-> TRUE, n |-> nacc]
    ELSE IF s[i] \notin Digits THEN [ok |-> FALSE, n |-> 0]
    ELSE LET d == DigitVal(s[i])
             lim == -(MaxInt32 \div 10)
         IN  IF nacc > lim \/ (nacc = lim /\ d <= (MaxInt32 % 10) + 1)
             THEN ParseDigits(s, i + 1, nacc * 10 - d)
             ELSE [ok |-> FALSE, n |-> 0]

ParseInt(s) ==
    IF Len(s) = 0 THEN [ok |-> FALSE, v |-> 0]
    ELSE LET neg == s[1] = "-"
             body == IF s[1] \in {"+", "-"} THEN Tail(s) ELSE s
         IN  IF Len(body) = 0 THEN [ok |-> FALSE, v |-> 0]
             ELSE LET r == ParseDigits(body, 1, 0)
                  IN  IF ~r.ok THEN [ok |-> FALSE, v |-> 0]
                      ELSE IF neg THEN [ok |-> TRUE, v |-> r.n]
                      ELSE IF r.n = MinInt32 THEN [ok |-> FALSE, v |-> 0]
                      ELSE [ok |-> TRUE, v |-> -r.n]

\* ------------------------------------------------- float64 to int (line 181)
GOARCH == {"amd64", "arm64"}

RECURSIVE Pow10(_)
Pow10(n) == IF n = 0 THEN 1 ELSE 10 * Pow10(n - 1)

Abs(x) == IF x < 0 THEN -x ELSE x

RECURSIVE NumDigits(_)
NumDigits(n) == IF n < 10 THEN 1 ELSE 1 + NumDigits(n \div 10)

\* a conversion that rounds to the nearest integer
FloatToIntRounding(m, e, arch) ==
    CASE m = 0 -> GInt(0)
      [] m # 0 /\ e < 0 ->
            LET q == (Abs(m) + (Pow10(-e) \div 2)) \div Pow10(-e)
            IN  GInt(IF m < 0 THEN -q ELSE q)
      [] m # 0 /\ e >= 0 /\ NumDigits(Abs(m)) + e <= 9 -> GInt(m * Pow10(e))
      [] m # 0 /\ NumDigits(Abs(m)) + e >= 20 ->
            IF arch = "amd64" \/ m < 0 THEN GIntMin ELSE GIntMax

\* (int)(f) for the float64 f = m * 10^e.  A value with at most 9 integer
\* digits converts by dropping its fraction; a value of 20 digits or more is
\* beyond a 64-bit int, where Go leaves the result to the implementation:
\* amd64 yields the smallest int, arm64 saturates.  Numbers in between are
\* not drawn by this model.
FloatToInt(m, e, arch) ==
    CASE m = 0 -> GInt(0)
      [] m # 0 /\ e < 0 ->
            LET q == Abs(m) \div Pow10(-e)
            IN  GInt(IF m < 0 THEN -q ELSE q)
      [] m # 0 /\ e >= 0 /\ NumDigits(Abs(m)) + e <= 9 -> GInt(m * Pow10(e))
      [] m # 0 /\ NumDigits(Abs(m)) + e >= 20 ->
            IF arch = "amd64" \/ m < 0 THEN GIntMin ELSE GIntMax

\* --------------------------------------- json.Unmarshal (lines 165, 196)
\* a JSON value stored into the interface{} field Filter.Value
DecodeValue(j) ==
    CASE j.k = "str" -> GString(j.s)
      [] j.k = "num" -> GFloat(j.m, j.e)
      [] j.k = "bool" -> GBool(j.b)
      [] j.k = "obj" -> GMap
      [] j.k = "arr" -> GArray
      [] j.k \in {"null", "absent"} -> Nil

\* a JSON value stored into a string field: null and a missing member leave ""
StringFieldOK(j) == j.k \in {"str", "null", "absent"}
DecodeStringField(j) == IF j.k = "str" THEN j.s ELSE <<>>

\* an element of the array stored into a *Filter: null leaves a nil pointer
FilterElemOK(j) == j.k = "null" \/ (j.k = "obj" /\ StringFieldOK(j.type))
DecodeFilterElem(j) ==
    IF j.k = "null" THEN Nil
    ELSE Filter(DecodeStringField(j.type), DecodeValue(j.value))

\* json.Unmarshal([]byte(filterStr), &filters), filterStr not empty
UnmarshalFilters(text) ==
    IF text.t = "invalid" THEN [err |-> SyntaxError, v |-> Nil]
    ELSE LET doc == text.doc
         IN  CASE doc.k = "null" -> [err |-> NoErr, v |-> Nil]
               [] doc.k = "arr" ->
                     IF \E i \in 1..Len(doc.items) : ~FilterElemOK(doc.items[i])
                     THEN [err |-> UnmarshalTypeError, v |-> Nil]
                     ELSE [err |-> NoErr,
                           v |-> GSlice([i \in 1..Len(doc.items) |->
                                            DecodeFilterElem(doc.items[i])])]
               [] OTHER -> [err |-> UnmarshalTypeError, v |-> Nil]

\* json.Unmarshal([]byte(triggerStr), trigger), trigger = &policy.Trigger{}
UnmarshalTrigger(text) ==
    IF text.t = "invalid" THEN [err |-> SyntaxError, v |-> Nil]
    ELSE LET doc == text.doc
         IN  CASE doc.k = "null" -> [err |-> NoErr, v |-> Trigger(<<>>)]
               [] doc.k = "obj" ->
                     IF StringFieldOK(doc.type)
                     THEN [err |-> NoErr, v |-> Trigger(DecodeStringField(doc.type))]
                     ELSE [err |-> UnmarshalTypeError, v |-> Nil]
               [] OTHER -> [err |-> UnmarshalTypeError, v |-> Nil]

\* ------------------------------------------------ the normalization pass
\* a loop body that converts the value of a filter of any type
ConvertValueAnyType(f, arch) ==
    CASE f.Value.k = "string" ->
            LET r == ParseInt(f.Value.s)
            IN  [ok |-> r.ok, value |-> IF r.ok THEN GInt(r.v) ELSE f.Value]
      [] f.Value.k = "float64" ->
            [ok |-> TRUE, value |-> FloatToInt(f.Value.m, f.Value.e, arch)]
      [] OTHER -> [ok |-> TRUE, value |-> f.Value]

\* The body of the loop of parseFilters for a non-nil filter f: the value f
\* ends with, or the failure of strconv.ParseInt.
ConvertValue(f, arch) ==
    IF f.Type = FilterTypeVulnerability
    THEN CASE f.Value.k = "string" ->
                 LET r == ParseInt(f.Value.s)
                 IN  [ok |-> r.ok, value |-> IF r.ok THEN GInt(r.v) ELSE f.Value]
           [] f.Value.k = "float64" ->
                 [ok |-> TRUE, value |-> FloatToInt(f.Value.m, f.Value.e, arch)]
           [] OTHER -> [ok |-> TRUE, value |-> f.Value]
    ELSE [ok |-> TRUE, value |-> f.Value]

\* for _, f := range filters: reading f.Type of a nil *Filter panics
RECURSIVE ConvertLoop(_, _, _)
ConvertLoop(elems, i, arch) ==
    IF i > Len(elems)
    THEN [filters |-> GSlice(elems), err |-> NoErr, panic |-> FALSE]
    ELSE IF elems[i] = Nil
    THEN [filters |-> Nil, err |-> NoErr, panic |-> TRUE]
    ELSE LET c == ConvertValue(elems[i], arch)
         IN  IF ~c.ok
             THEN [filters |-> Nil, err |-> ErrorsWrapf(NumError, "parse filters"),
                   panic |-> FALSE]
             ELSE ConvertLoop([elems EXCEPT ![i].Value = c.value], i + 1, arch)

ParseFilters(filterStr, arch) ==
    IF filterStr.t = "empty"
    THEN [filters |-> Nil, err |-> NoErr, panic |-> FALSE]
    ELSE LET d == UnmarshalFilters(filterStr)
         IN  IF d.err # NoErr
             THEN [filters |-> Nil, err |-> d.err, panic |-> FALSE]
             ELSE IF d.v = Nil
             THEN [filters |-> Nil, err |-> NoErr, panic |-> FALSE]
             ELSE ConvertLoop(d.v.elems, 1, arch)

\* without the length check, json.Unmarshal meets the end of an empty input
ParseTriggerNoEmptyCheck(triggerStr) ==
    IF triggerStr.t = "empty"
    THEN [trigger |-> Nil, err |-> SyntaxError]
    ELSE LET d == UnmarshalTrigger(triggerStr)
         IN  IF d.err # NoErr
             THEN [trigger |-> Nil, err |-> d.err]
             ELSE [trigger |-> d.v, err |-> NoErr]

ParseTrigger(triggerStr) ==
    IF triggerStr.t = "empty"
    THEN [trigger |-> Nil, err |-> NoErr]
    ELSE LET d == UnmarshalTrigger(triggerStr)
         IN  IF d.err # NoErr
             THEN [trigger |-> Nil, err |-> d.err]
             ELSE [trigger |-> d.v, err |-> NoErr]

\* parsePolicy past its nil check (lines 141-155): the schema it returns,
\* its error, and whether it panicked
ParseFields(schema, arch) ==
    LET f == ParseFilters(schema.FiltersStr, arch)
    IN  IF f.panic
        THEN [schema |-> Nil, err |-> NoErr, panic |-> TRUE]
        ELSE IF f.err # NoErr
        THEN [schema |-> Nil, err |-> f.err, panic |-> FALSE]
        ELSE LET t == ParseTrigger(schema.TriggerStr)
             IN  IF t.err # NoErr
                 THEN [schema |-> Nil, err |-> t.err, panic |-> FALSE]
                 ELSE [schema |-> [schema EXCEPT !.Filters = f.filters,
                                                 !.Trigger = t.trigger],
                       err |-> NoErr, panic |-> FALSE]

\* without the nil check, schema.FiltersStr dereferences a nil pointer
ParsePolicyNoNilCheck(schema, arch) ==
    IF schema = Nil
    THEN [schema |-> Nil, err |-> NoErr, panic |-> TRUE]
    ELSE ParseFields(schema, arch)

ParsePolicy(schema, arch) ==
    IF schema = Nil
    THEN [schema |-> Nil, err |-> ErrorsNew("policy schema can not be nil"),
          panic |-> FALSE]
    ELSE ParseFields(schema, arch)

\* ------------------------------------------------------------- the state
VARIABLES
    store,      \* the policy DAO's table: id -> row, or Nil
    nextID,     \* the id the DAO assigns next
    query,      \* the caller's *q.Query object
    goarch,     \* the architecture the program was built for
    last        \* the last Manager call: arguments, the DAO's answer, the return

vars == <<store, nextID, query, goarch, last>>

Projects == {1, 2}
Names == {"a"}
Ids == 1..MaxId

\* ---------------------------------------------------------------- q.Query
EmptyMap == [k |-> "map", m |-> <<>>]
Map(m) == [k |-> "map", m |-> m]
Query(kw) == [Keywords |-> kw]

\* ------------------------------------------------------- the serialized texts
Str7 == <<"7">>
SeverityStrings ==
    { Str7, <<"5">>, <<>>, <<"-">>, <<"+", "7">>, <<"-", "7">>, <<"0", "0", "7">>,
      <<"7", ".", "9">>, <<"a">>,
      <<"2", "1", "4", "7", "4", "8", "3", "6", "4", "7">>,
      <<"2", "1", "4", "7", "4", "8", "3", "6", "4", "8">>,
      <<"-", "2", "1", "4", "7", "4", "8", "3", "6", "4", "8">>,
      <<"-", "2", "1", "4", "7", "4", "8", "3", "6", "4", "9">> }

JSONNumbers ==
    { JNum(79, -1), JNum(50, -1), JNum(75, -1), JNum(-79, -1), JNum(-5, -1),
      JNum(7, 0), JNum(0, 0), JNum(1, 300), JNum(-1, 300) }

JSONValues ==
    {JStr(s) : s \in SeverityStrings} \cup JSONNumbers
        \cup {JBool(TRUE), JNull, JAbsent, JObj(JAbsent, JAbsent), JArr(<<>>)}

JSONTypes ==
    {JStr(FilterTypeVulnerability), JStr(FilterTypeRepository), JAbsent, JNum(1, 0)}

CoreValues == {JStr(Str7), JStr(<<"a">>), JNum(79, -1), JNum(1, 300), JBool(TRUE), JNull}

JSONElems ==
    {JObj(JStr(FilterTypeVulnerability), v) : v \in JSONValues}
        \cup {JObj(t, v) : t \in JSONTypes, v \in CoreValues}
        \cup {JNull, JNum(7, 0)}

Vuln(v) == JObj(JStr(FilterTypeVulnerability), v)
Repo(v) == JObj(JStr(FilterTypeRepository), v)

CoreElems ==
    { Vuln(JStr(Str7)), Vuln(JStr(<<"a">>)), Vuln(JBool(TRUE)),
      Repo(JNum(79, -1)), JNull }

FilterTexts ==
    {EmptyText, InvalidText}
        \cup {JSONText(d) : d \in {JNull, JStr(Str7), Vuln(JStr(Str7)), JArr(<<>>)}}
        \cup {JSONText(JArr(<<e>>)) : e \in JSONElems}
        \cup {JSONText(JArr(s)) : s \in UNION {[1..n -> CoreElems] : n \in 2..MaxFilters}}

TriggerObj == JObj(JStr(<<"m", "a", "n", "u", "a", "l">>), JAbsent)
TriggerTexts ==
    {EmptyText, InvalidText}
        \cup {JSONText(d) : d \in {TriggerObj, JNull, JArr(<<>>)}}

\* the texts the callers of Create and Update supply
CoreTexts ==
    { <<JSONText(JArr(<<Vuln(JStr(Str7))>>)), JSONText(TriggerObj)>>,
      <<JSONText(JArr(<<Vuln(JNum(79, -1))>>)), InvalidText>>,
      <<JSONText(JArr(<<JNull>>)), JSONText(TriggerObj)>> }

\* ------------------------------------------------------ the policy DAO
NotFoundErr == [type |-> "*errors.Error", msg |-> "", cause |-> "", code |-> "NOT_FOUND"]
ConflictErr == [type |-> "*errors.Error", msg |-> "", cause |-> "", code |-> "CONFLICT"]
StoreFailure == [type |-> "store", msg |-> "", cause |-> "", code |-> ""]

Row(id, project, name, f, t) ==
    [ID |-> id, ProjectID |-> project, Name |-> name, FiltersStr |-> f, TriggerStr |-> t]

\* the schema the DAO builds from a row: the derived fields are not persisted
Fetched(row) ==
    [ID |-> row.ID, ProjectID |-> row.ProjectID, Name |-> row.Name,
     FiltersStr |-> row.FiltersStr, TriggerStr |-> row.TriggerStr,
     Filters |-> Nil, Trigger |-> Nil]

Schema(id, project, name, f, t) == Fetched(Row(id, project, name, f, t))

NoResp == [schema |-> Nil, schemas |-> Nil, total |-> 0, id |-> 0, err |-> NoErr]
Failed(err) == [NoResp EXCEPT !.err = err]

Matches(row, q) ==
    \/ q = Nil
    \/ q.Keywords = Nil
    \/ \A key \in DOMAIN q.Keywords.m :
          /\ key = "project_id" => row.ProjectID = q.Keywords.m[key]
          /\ key = "id" => row.ID = q.Keywords.m[key]

RECURSIVE RowsFrom(_, _)
RowsFrom(i, q) ==
    IF i > MaxId THEN <<>>
    ELSE (IF store[i] # Nil /\ Matches(store[i], q) THEN <<Fetched(store[i])>> ELSE <<>>)
            \o RowsFrom(i + 1, q)

\* What the DAO may answer: its faithful answer, a failure of its own, or
\* (Get, GetByName, List) the answer of a misbehaving DAO: no record and no error.
DaoCount(q) ==
    {[NoResp EXCEPT !.total = Len(RowsFrom(1, q))], Failed(StoreFailure)}

DaoGet(id) ==
    (IF id \in Ids /\ store[id] # Nil
     THEN {[NoResp EXCEPT !.schema = Fetched(store[id])]}
     ELSE {Failed(NotFoundErr)})
        \cup {Failed(StoreFailure), NoResp}

DaoGetByName(project, name) ==
    LET hit == {i \in Ids : store[i] # Nil /\ store[i].ProjectID = project
                                /\ store[i].Name = name}
    IN  (IF hit # {}
         THEN {[NoResp EXCEPT !.schema = Fetched(store[i])] : i \in hit}
         ELSE {Failed(NotFoundErr)})
            \cup {Failed(StoreFailure), NoResp}

DaoList(q) ==
    LET rows == RowsFrom(1, q)
    IN  {[NoResp EXCEPT !.schemas = GSlice(rows)], Failed(StoreFailure)}
            \cup {[NoResp EXCEPT !.schemas = GSlice([rows EXCEPT ![j] = Nil])] :
                     j \in 1..Len(rows)}

\* Create, Update, Delete: the DAO's answer with the table it leaves
DaoCreate(schema) ==
    LET taken == \E i \in Ids : store[i] # Nil /\ store[i].ProjectID = schema.ProjectID
                                    /\ store[i].Name = schema.Name
    IN  {[resp |-> Failed(StoreFailure), store |-> store, nextID |-> nextID]}
            \cup (IF taken
                  THEN {[resp |-> Failed(ConflictErr), store |-> store, nextID |-> nextID]}
                  ELSE {[resp |-> [NoResp EXCEPT !.id = nextID],
                         store |-> [store EXCEPT ![nextID] =
                                       Row(nextID, schema.ProjectID, schema.Name,
                                           schema.FiltersStr, schema.TriggerStr)],
                         nextID |-> nextID + 1]})

\* props names the columns to write; with no props every column is written
DaoUpdate(schema, props) ==
    LET id == schema.ID
        all == Len(props) = 0
        has(p) == \E i \in 1..Len(props) : props[i] = p
    IN  {[resp |-> Failed(StoreFailure), store |-> store]}
            \cup (IF id \in Ids /\ store[id] # Nil
                  THEN {[resp |-> NoResp,
                         store |-> [store EXCEPT ![id] =
                             Row(id, @.ProjectID, @.Name,
                                 IF all \/ has("filters") THEN schema.FiltersStr
                                                         ELSE @.FiltersStr,
                                 IF all \/ has("trigger") THEN schema.TriggerStr
                                                         ELSE @.TriggerStr)]]}
                  ELSE {[resp |-> Failed(NotFoundErr), store |-> store]})

DaoDelete(id) ==
    {[resp |-> Failed(StoreFailure), store |-> store]}
        \cup (IF id \in Ids /\ store[id] # Nil
              THEN {[resp |-> NoResp, store |-> [store EXCEPT ![id] = Nil]]}
              ELSE {[resp |-> Failed(NotFoundErr), store |-> store]})

\* ------------------------------------------------------------ the Manager
\* What a Manager call returns; handed counts the schemas it gave parsePolicy.
\* Of the last call are also kept: before, the caller's query object as it was;
\* listQuery, the query handed to the DAO; streak, how many calls of
\* ListPoliciesByProject in a row (1 or 2, 2 for more) were made with the same
\* project and the caller's query object; first, that object before the first.
NoRet == [schema |-> Nil, schemas |-> Nil, total |-> 0, id |-> 0, err |-> NoErr,
          panic |-> FALSE, handed |-> 0]

NoLast ==
    [op |-> "", id |-> 0, project |-> 0, name |-> "", arg |-> Nil, props |-> <<>>,
     passedNil |-> FALSE, before |-> Nil, listQuery |-> Nil,
     streak |-> 0, first |-> Nil,
     resp |-> NoResp, ret |-> NoRet]

CountReturn(resp) == [NoRet EXCEPT !.total = resp.total, !.err = resp.err]
CreateReturn(resp) == [NoRet EXCEPT !.id = resp.id, !.err = resp.err]
UpdateReturn(resp) == [NoRet EXCEPT !.err = resp.err]
\* a Delete that logs the DAO's failure and reports success
DeleteReturnSwallow(resp) == NoRet
DeleteReturn(resp) == [NoRet EXCEPT !.err = resp.err]

\* a Get that runs parsePolicy whatever the DAO answered
GetReturnParseAnyway(resp, arch) ==
    LET p == ParsePolicy(resp.schema, arch)
    IN  [NoRet EXCEPT !.schema = p.schema, !.err = p.err, !.panic = p.panic,
                      !.handed = 1]

GetReturn(resp, arch) ==
    IF resp.err # NoErr
    THEN [NoRet EXCEPT !.err = resp.err]
    ELSE LET p == ParsePolicy(resp.schema, arch)
         IN  [NoRet EXCEPT !.schema = p.schema, !.err = p.err, !.panic = p.panic,
                           !.handed = 1]

RECURSIVE ListLoop(_, _, _)
ListLoop(schemas, i, arch) ==
    IF i > Len(schemas)
    THEN [NoRet EXCEPT !.schemas = GSlice(schemas), !.handed = i - 1]
    ELSE LET p == ParsePolicy(schemas[i], arch)
         IN  IF p.panic
             THEN [NoRet EXCEPT !.panic = TRUE, !.handed = i]
             ELSE IF p.err # NoErr
             THEN [NoRet EXCEPT !.err = p.err, !.handed = i]
             ELSE ListLoop([schemas EXCEPT ![i] = p.schema], i + 1, arch)

ListPoliciesReturn(resp, arch) ==
    IF resp.err # NoErr
    THEN [NoRet EXCEPT !.err = resp.err]
    ELSE IF resp.schemas = Nil
    THEN NoRet
    ELSE ListLoop(resp.schemas.elems, 1, arch)

\* a ListPoliciesByProject that builds the keyword map anew
InjectProjectFreshMap(q, project) ==
    LET q0 == IF q = Nil THEN Query(Nil) ELSE q
    IN  [q0 EXCEPT !.Keywords = Map("project_id" :> project)]

\* ListPoliciesByProject, lines 122-130: the query handed to ListPolicies
InjectProject(q, project) ==
    LET q0 == IF q = Nil THEN Query(Nil) ELSE q
        q1 == IF q0.Keywords = Nil THEN [q0 EXCEPT !.Keywords = EmptyMap] ELSE q0
    IN  [q1 EXCEPT !.Keywords.m = ("project_id" :> project) @@ @]

\* --------------------------------------------------------------- actions
Frame == UNCHANGED <<store, nextID, query, goarch>>

Count ==
    \E q \in {Nil, query} : \E resp \in DaoCount(q) :
        /\ last' = [NoLast EXCEPT !.op = "Count", !.listQuery = q, !.resp = resp,
                                  !.ret = CountReturn(resp)]
        /\ Frame

\* a Create that normalizes the schema first and refuses what fails
CreateValidating ==
    \E project \in Projects, name \in Names, txt \in CoreTexts :
        LET schema == Schema(0, project, name, txt[1], txt[2])
            p == ParsePolicy(schema, goarch)
        IN  /\ nextID <= MaxId
            /\ IF p.err # NoErr \/ p.panic
               THEN /\ last' = [NoLast EXCEPT !.op = "Create", !.arg = schema,
                                              !.ret = [NoRet EXCEPT !.err = p.err,
                                                                    !.panic = p.panic]]
                    /\ UNCHANGED <<store, nextID>>
               ELSE \E r \in DaoCreate(schema) :
                        /\ store' = r.store
                        /\ nextID' = r.nextID
                        /\ last' = [NoLast EXCEPT !.op = "Create", !.arg = schema,
                                                  !.resp = r.resp,
                                                  !.ret = CreateReturn(r.resp)]
            /\ UNCHANGED <<query, goarch>>

Create ==
    \E project \in Projects, name \in Names, txt \in CoreTexts :
        LET schema == Schema(0, project, name, txt[1], txt[2])
        IN  /\ nextID <= MaxId
            /\ \E r \in DaoCreate(schema) :
                  /\ store' = r.store
                  /\ nextID' = r.nextID
                  /\ last' = [NoLast EXCEPT !.op = "Create", !.arg = schema,
                                            !.resp = r.resp,
                                            !.ret = CreateReturn(r.resp)]
            /\ UNCHANGED <<query, goarch>>

Update ==
    \E id \in Ids, txt \in CoreTexts,
       props \in {<<>>, <<"filters">>} :
        LET schema == Schema(id, 0, "", txt[1], txt[2])
        IN  /\ \E r \in DaoUpdate(schema, props) :
                  /\ store' = r.store
                  /\ last' = [NoLast EXCEPT !.op = "Update", !.id = id, !.arg = schema,
                                            !.props = props, !.resp = r.resp,
                                            !.ret = UpdateReturn(r.resp)]
            /\ UNCHANGED <<nextID, query, goarch>>

Get ==
    \E id \in Ids : \E resp \in DaoGet(id) :
        /\ last' = [NoLast EXCEPT !.op = "Get", !.id = id, !.resp = resp,
                                  !.ret = GetReturn(resp, goarch)]
        /\ Frame

GetByName ==
    \E project \in Projects, name \in Names : \E resp \in DaoGetByName(project, name) :
        /\ last' = [NoLast EXCEPT !.op = "GetByName", !.project = project,
                                  !.name = name, !.resp = resp,
                                  !.ret = GetReturn(resp, goarch)]
        /\ Frame

Delete ==
    \E id \in Ids : \E r \in DaoDelete(id) :
        /\ store' = r.store
        /\ last' = [NoLast EXCEPT !.op = "Delete", !.id = id, !.resp = r.resp,
                                  !.ret = DeleteReturn(r.resp)]
        /\ UNCHANGED <<nextID, query, goarch>>

ListPolicies ==
    \E q \in {Nil, query} : \E resp \in DaoList(q) :
        /\ last' = [NoLast EXCEPT !.op = "ListPolicies", !.listQuery = q,
                                  !.resp = resp,
                                  !.ret = ListPoliciesReturn(resp, goarch)]
        /\ Frame

ListPoliciesByProject ==
    \E project \in Projects, passedNil \in BOOLEAN :
        LET q == InjectProject(IF passedNil THEN Nil ELSE query, project)
            again == /\ last.op = "ListPoliciesByProject"
                     /\ ~last.passedNil /\ ~passedNil
                     /\ last.project = project
        IN  \E resp \in DaoList(q) :
               /\ last' = [NoLast EXCEPT !.op = "ListPoliciesByProject",
                                         !.project = project, !.passedNil = passedNil,
                                         !.before = query, !.listQuery = q,
                                         !.streak = IF passedNil THEN 0
                                                    ELSE IF again THEN 2 ELSE 1,
                                         !.first = IF passedNil THEN Nil
                                                   ELSE IF again THEN last.first
                                                   ELSE query,
                                         !.resp = resp,
                                         !.ret = ListPoliciesReturn(resp, goarch)]
               /\ query' = IF passedNil THEN query ELSE q
               /\ UNCHANGED <<store, nextID, goarch>>

\* the caller builds another query object
QueryObjects ==
    { Query(Nil), Query(EmptyMap), Query(Map("project_id" :> 2)),
      Query(Map("id" :> 1)), Query(Map(("id" :> 1) @@ ("project_id" :> 1))) }

NewQuery ==
    /\ query' \in QueryObjects
    /\ last' = [NoLast EXCEPT !.op = "NewQuery"]
    /\ UNCHANGED <<store, nextID, goarch>>

\* No text the callers supply here holds a number beyond the range of int,
\* so the architecture makes no difference and one is drawn.
Init ==
    /\ store = [i \in Ids |-> Nil]
    /\ nextID = 1
    /\ query = Query(Nil)
    /\ goarch = "amd64"
    /\ last = NoLast

Next ==
    \/ Count
    \/ Create
    \/ Update
    \/ Get
    \/ GetByName
    \/ Delete
    \/ ListPolicies
    \/ ListPoliciesByProject

Spec == Init /\ [][Next]_vars

\* The callers' query objects, over a DAO holding a policy in each project.
InitQuery ==
    /\ \E txt \in CoreTexts :
          store = [i \in Ids |-> IF i = 1 THEN Row(1, 1, "a", txt[1], txt[2])
                                 ELSE IF i = 2 THEN Row(2, 2, "a", EmptyText, EmptyText)
                                 ELSE Nil]
    /\ nextID = 3
    /\ query \in QueryObjects
    /\ goarch \in GOARCH
    /\ last = NoLast

NextQuery ==
    \/ NewQuery
    \/ Count
    \/ ListPolicies
    \/ ListPoliciesByProject

SpecQuery == InitQuery /\ [][NextQuery]_vars

\* The normalization pass over every serialized text: a policy with no text
\* and a policy with any text, read by Get, GetByName and ListPolicies.
InitNorm ==
    /\ \E f \in FilterTexts, t \in TriggerTexts :
          store = [i \in Ids |-> IF i = 1 THEN Row(1, 2, "a", EmptyText, EmptyText)
                                 ELSE IF i = 2 THEN Row(2, 1, "a", f, t)
                                 ELSE Nil]
    /\ nextID = 3
    /\ query = Query(Nil)
    /\ goarch \in GOARCH
    /\ last = NoLast

NextNorm ==
    \/ Get
    \/ GetByName
    \/ ListPolicies

SpecNorm == InitNorm /\ [][NextNorm]_vars

\* ------------------------------------------------------- the failure kinds
\* The kinds of failure the callers tell apart.
Kind(err) ==
    CASE err = NoErr -> "none"
      [] err = ErrorsNew("policy schema can not be nil") -> "InvalidInput"
      [] err.type \in {"*json.SyntaxError", "*json.UnmarshalTypeError"} -> "Malformed"
      [] err.type = "*errors.Error" /\ err.cause = "*strconv.NumError" -> "Malformed"
      [] err.code = "NOT_FOUND" -> "NotFound"
      [] OTHER -> "Other"

\* ----------------------------------------------- what the last call shows
GetOps == {"Get", "GetByName"}
ListOps == {"ListPolicies", "ListPoliciesByProject"}
ManagerOps == {"Count", "Create", "Update", "Delete"} \cup GetOps \cup ListOps

\* the schemas the last call gave parsePolicy, in order
Handed ==
    IF last.op \in GetOps /\ last.ret.handed = 1 THEN <<last.resp.schema>>
    ELSE IF last.op \in ListOps /\ last.ret.handed > 0
    THEN SubSeq(last.resp.schemas.elems, 1, last.ret.handed)
    ELSE <<>>

\* the schemas the last call returned
Returned ==
    (IF last.ret.schema # Nil THEN {last.ret.schema} ELSE {})
        \cup (IF last.ret.schemas # Nil
              THEN {last.ret.schemas.elems[i] : i \in 1..Len(last.ret.schemas.elems)}
              ELSE {})

Failing == last.ret.err # NoErr \/ last.ret.panic

\* the elements of the array a filters text spells
RawItems(schema) ==
    IF schema.FiltersStr.t = "json" /\ schema.FiltersStr.doc.k = "arr"
    THEN schema.FiltersStr.doc.items
    ELSE <<>>

IsVuln(item) == item.k = "obj" /\ item.type = JStr(FilterTypeVulnerability)
Coerced(item) == IsVuln(item) /\ item.value.k \in {"str", "num"}

AllDigits(s) == Len(s) > 0 /\ \A i \in 1..Len(s) : s[i] \in Digits

RECURSIVE DecimalValue(_)
DecimalValue(s) ==
    IF Len(s) = 0 THEN 0
    ELSE DecimalValue(SubSeq(s, 1, Len(s) - 1)) * 10 + DigitVal(s[Len(s)])

\* v is m * 10^e with its fraction dropped
IntegerPart(m, e, v) ==
    IF e < 0
    THEN LET p == Pow10(-e)
         IN  /\ Abs(v) * p <= Abs(m)
             /\ Abs(m) < (Abs(v) + 1) * p
             /\ (v > 0 => m > 0)
             /\ (v < 0 => m < 0)
    ELSE v = m * Pow10(e)

\* the integer part of m * 10^e is an int (and an integer of this model)
FitsInt(m, e) == m = 0 \/ e < 0 \/ NumDigits(Abs(m)) + e <= 9

BothEmpty(schema) == schema.FiltersStr = EmptyText /\ schema.TriggerStr = EmptyText

\* a serialized text of the schema does not decode, or a severity text does not parse
BadText(schema) ==
    \/ schema.FiltersStr # EmptyText /\ UnmarshalFilters(schema.FiltersStr).err # NoErr
    \/ schema.TriggerStr # EmptyText /\ UnmarshalTrigger(schema.TriggerStr).err # NoErr
    \/ /\ schema.FiltersStr # EmptyText
       /\ UnmarshalFilters(schema.FiltersStr).err = NoErr
       /\ \E i \in 1..Len(RawItems(schema)) :
             LET item == RawItems(schema)[i]
             IN  IsVuln(item) /\ item.value.k = "str" /\ ~ParseInt(item.value.s).ok

\* ------------------------------------------------------------------ C1
\* C1 as stated: in every schema a read returns, the value of every
\* vulnerability filter is an integer: digits parsed, a float with its
\* fraction dropped.
C1_Original ==
    \A sch \in Returned :
        sch.Filters # Nil =>
            \A i \in 1..Len(RawItems(sch)) :
                LET item == RawItems(sch)[i]
                    v == sch.Filters.elems[i].Value
                IN  IsVuln(item) =>
                        /\ v.k = "int"
                        /\ (item.value.k = "str" /\ AllDigits(item.value.s)
                                => v = GInt(DecimalValue(item.value.s)))
                        /\ (item.value.k = "num"
                                => v.sat = 0 /\ IntegerPart(item.value.m, item.value.e, v.v))

\* C1 amended: in every schema a read returns, the value of every
\* vulnerability filter that was encoded as a text or as a number is an
\* integer; a text of digits is the integer it spells, and a number whose
\* integer part an int can hold is that integer part (fraction dropped,
\* not rounded).
C1_Severity ==
    \A sch \in Returned :
        sch.Filters # Nil =>
            \A i \in 1..Len(RawItems(sch)) :
                LET item == RawItems(sch)[i]
                    v == sch.Filters.elems[i].Value
                IN  Coerced(item) =>
                        /\ v.k = "int"
                        /\ (item.value.k = "str" => v.sat = 0)
                        /\ (item.value.k = "str" /\ AllDigits(item.value.s)
                                => v = GInt(DecimalValue(item.value.s)))
                        /\ (item.value.k = "num" /\ FitsInt(item.value.m, item.value.e)
                                => v.sat = 0 /\ IntegerPart(item.value.m, item.value.e, v.v))

\* a read returned the filter encoded as 7.9 with the value 7
C1_Witness ==
    \E sch \in Returned :
        /\ sch.FiltersStr = JSONText(JArr(<<Vuln(JNum(79, -1))>>))
        /\ sch.Filters.elems[1].Value = GInt(7)

\* ------------------------------------------------------------------ C2
\* C2: when the record Get or GetByName fetched has a filters or trigger
\* text that does not decode, or a severity text that does not parse, the
\* call fails with a Malformed failure and returns no schema.
C2_MalformedFails ==
    (last.op \in GetOps /\ last.resp.schema # Nil /\ BadText(last.resp.schema))
        => /\ ~last.ret.panic
           /\ Kind(last.ret.err) = "Malformed"
           /\ last.ret.schema = Nil

\* ------------------------------------------------------------------ C3
\* C3: when the DAO's page holds a policy whose normalization fails,
\* ListPolicies fails with that Malformed failure and returns no list.
C3_Atomic ==
    (/\ last.op \in ListOps
     /\ last.resp.schemas # Nil
     /\ \A j \in 1..Len(last.resp.schemas.elems) : last.resp.schemas.elems[j] # Nil
     /\ \E j \in 1..Len(last.resp.schemas.elems) : BadText(last.resp.schemas.elems[j]))
        => /\ ~last.ret.panic
           /\ Kind(last.ret.err) = "Malformed"
           /\ last.ret.schemas = Nil

\* ------------------------------------------------------------------ C4
\* C4: whenever parsePolicy is handed a nil schema (the DAO's answer to Get
\* or GetByName, or an element of its page), the call fails with
\* InvalidInput "policy schema can not be nil", returns nothing and does
\* not panic.
C4_NilSchema ==
    \A j \in 1..Len(Handed) :
        Handed[j] = Nil =>
            /\ j = Len(Handed)
            /\ ~last.ret.panic
            /\ Kind(last.ret.err) = "InvalidInput"
            /\ last.ret.err.msg = "policy schema can not be nil"
            /\ last.ret.schema = Nil
            /\ last.ret.schemas = Nil

\* ListPolicies reached a nil second element of the page
C4_Witness ==
    /\ last.op = "ListPolicies"
    /\ last.ret.handed = 2
    /\ last.resp.schemas.elems[2] = Nil
    /\ Kind(last.ret.err) = "InvalidInput"

\* ------------------------------------------------------------------ C5
\* C5: a returned schema has no filters where its filters text is empty and
\* no trigger where its trigger text is empty, and a schema with both texts
\* empty is never the one that makes a read fail.
C5_EmptyTexts ==
    /\ \A sch \in Returned :
          /\ sch.FiltersStr = EmptyText => sch.Filters = Nil
          /\ sch.TriggerStr = EmptyText => sch.Trigger = Nil
    /\ \A j \in 1..Len(Handed) :
          (Handed[j] # Nil /\ BothEmpty(Handed[j])) => ~(j = Len(Handed) /\ Failing)
    /\ (last.op \in GetOps /\ last.resp.schema # Nil /\ BothEmpty(last.resp.schema))
          => last.ret.schema # Nil

\* ListPolicies passed the policy with no text and failed on the next one
C5_Witness ==
    /\ last.op = "ListPolicies"
    /\ last.ret.handed = 2
    /\ BothEmpty(last.resp.schemas.elems[1])
    /\ Kind(last.ret.err) = "Malformed"

\* ------------------------------------------------------------------ C6
KeywordsOf(q) == IF q.Keywords = Nil THEN <<>> ELSE q.Keywords.m
HasNoKeyword(q) == q.Keywords = Nil \/ q.Keywords = EmptyMap

\* C6: the query ListPoliciesByProject hands on holds project_id = project.
\* With a nil query it is a fresh query holding nothing else and the caller's
\* object is untouched; with the caller's query it is that object, edited in
\* place: every other keyword kept, an earlier project_id replaced.  After two
\* calls with the same project on a query that held no keyword, the keyword
\* map is exactly {project_id: project}.
C6_ProjectConstraint ==
    last.op = "ListPoliciesByProject" =>
        LET kw == KeywordsOf(last.listQuery)
            old == KeywordsOf(last.before)
        IN  /\ last.listQuery.Keywords # Nil
            /\ "project_id" \in DOMAIN kw
            /\ kw["project_id"] = last.project
            /\ last.passedNil => (query = last.before /\ DOMAIN kw = {"project_id"})
            /\ ~last.passedNil =>
                  /\ query = last.listQuery
                  /\ DOMAIN kw = DOMAIN old \cup {"project_id"}
                  /\ \A key \in DOMAIN old \ {"project_id"} : kw[key] = old[key]
            /\ (last.streak = 2 /\ HasNoKeyword(last.first))
                  => query.Keywords = Map("project_id" :> last.project)

\* the second call in a row on a query that held another keyword and another project
C6_Witness ==
    /\ last.op = "ListPoliciesByProject"
    /\ last.streak = 2
    /\ last.project = 2
    /\ last.first = Query(Map(("id" :> 1) @@ ("project_id" :> 1)))
    /\ query = Query(Map(("id" :> 1) @@ ("project_id" :> 2)))

\* ------------------------------------------------------------------ C7
RowOf(schema) == store[schema.ID]

\* the outcome of parsePolicy on the row a schema came from, as it is now
SameOutcome(ret, row) ==
    LET p == ParsePolicy(Fetched(row), goarch)
    IN  ret.schema = p.schema /\ ret.err = p.err /\ ret.panic = p.panic

C7_State ==
    /\ last.op = "Create" =>
          /\ last.ret.err = last.resp.err
          /\ last.ret.id = last.resp.id
          /\ last.resp.err = NoErr =>
                /\ last.ret.id \in Ids
                /\ store[last.ret.id] # Nil
                /\ store[last.ret.id].FiltersStr = last.arg.FiltersStr
                /\ store[last.ret.id].TriggerStr = last.arg.TriggerStr
    /\ last.op = "Update" =>
          /\ last.ret.err = last.resp.err
          /\ last.resp.err = NoErr =>
                /\ store[last.id].FiltersStr = last.arg.FiltersStr
                /\ last.props = <<>> => store[last.id].TriggerStr = last.arg.TriggerStr
    /\ (last.op \in GetOps /\ last.resp.schema # Nil) =>
          /\ RowOf(last.resp.schema) # Nil
          /\ SameOutcome(last.ret, RowOf(last.resp.schema))
    /\ (last.op \in ListOps /\ last.ret.schemas # Nil) =>
          \A i \in 1..Len(last.ret.schemas.elems) :
              LET sch == last.ret.schemas.elems[i]
              IN  /\ RowOf(sch) # Nil
                  /\ sch = ParsePolicy(Fetched(RowOf(sch)), goarch).schema

C7_Step ==
    last'.op \in GetOps \cup ListOps \cup {"Count"} => (store' = store /\ nextID' = nextID)

\* C7: Create and Update hand the raw texts to the DAO as given and return
\* its answer (malformed text is stored and given an id); what Get,
\* GetByName and ListPolicies return is the normalization of the rows as the
\* DAO holds them now; and no read changes the DAO's table.
C7_RawTextRules == [](C7_State) /\ [][C7_Step]_vars

\* a text replaced by Update is what the next Get normalizes: it now fails
C7_Witness ==
    /\ last.op = "Get"
    /\ last.resp.schema # Nil
    /\ last.resp.schema.TriggerStr = InvalidText
    /\ last.resp.schema.FiltersStr = JSONText(JArr(<<Vuln(JStr(Str7))>>))
    /\ Kind(last.ret.err) = "Malformed"

\* ------------------------------------------------------------------ C8
NoRecord ==
    \/ last.op = "Get" /\ store[last.id] = Nil
    \/ /\ last.op = "GetByName"
       /\ \A i \in Ids : store[i] # Nil =>
             ~(store[i].ProjectID = last.project /\ store[i].Name = last.name)

\* C8: when there is no record and the DAO reports NotFound, Get and
\* GetByName return that failure as it is, return no schema and do not run
\* parsePolicy.
C8_NotFound ==
    (NoRecord /\ Kind(last.resp.err) = "NotFound")
        => /\ last.ret.err = last.resp.err
           /\ last.ret.schema = Nil
           /\ last.ret.handed = 0
           /\ ~last.ret.panic

\* Get of an id that was assigned and whose record is gone
C8_Witness ==
    /\ last.op = "Get"
    /\ last.id < nextID
    /\ store[last.id] = Nil
    /\ last.ret.err = NotFoundErr

\* ------------------------------------------------------------------ C9
StoreFailed ==
    /\ last.op \in ManagerOps
    /\ last.resp.err # NoErr
    /\ Kind(last.resp.err) # "NotFound"

\* C9 as stated: the DAO's failure comes back wrapped in an error that
\* names the operation.
C9_Original ==
    StoreFailed => last.ret.err = ErrorsWrapf(last.resp.err, last.op)

\* C9 amended: the DAO's failure comes back exactly as the DAO reported it,
\* not wrapped, with no result beside it and without parsePolicy being run.
C9_Verbatim ==
    StoreFailed =>
        /\ last.ret.err = last.resp.err
        /\ ~last.ret.panic
        /\ last.ret.schema = Nil
        /\ last.ret.schemas = Nil
        /\ last.ret.id = 0
        /\ last.ret.total = 0
        /\ last.ret.handed = 0

\* Delete came back with the DAO's failure
C9_Witness ==
    /\ last.op = "Delete"
    /\ last.resp.err = StoreFailure
    /\ last.ret.err = StoreFailure

\* ----------------------------------------------------------------- C10
\* C10: in every schema a read returns, the filters are as many and in the
\* order of the elements of the filters text, each with the type its element
\* spells, and each with the value its element decodes to unless it is a
\* vulnerability filter encoded as a text or as a number.
C10_Frame ==
    \A sch \in Returned :
        sch.Filters # Nil =>
            /\ sch.FiltersStr.t = "json"
            /\ sch.FiltersStr.doc.k = "arr"
            /\ Len(sch.Filters.elems) = Len(RawItems(sch))
            /\ \A i \in 1..Len(RawItems(sch)) :
                  LET item == RawItems(sch)[i]
                      f == sch.Filters.elems[i]
                  IN  /\ f # Nil
                      /\ item.k = "obj"
                      /\ f.Type = (IF item.type.k = "str" THEN item.type.s ELSE <<>>)
                      /\ ~Coerced(item) => f.Value = DecodeValue(item.value)

\* a read returned a repository filter whose value is still the text "7"
C10_Witness ==
    \E sch \in Returned :
        /\ sch.FiltersStr = JSONText(JArr(<<Repo(JStr(Str7))>>))
        /\ sch.Filters.elems[1].Value = GString(Str7)

====
